---------------------------- MODULE Spec2Model ----------------------------
(***************************************************************************)
(* State-machine model of src/app.py, the "KSA Climate Dashboard":         *)
(*   - the Streamlit script run (lines 51-154) with its two memoised       *)
(*     functions fetch_hourly_weather_data and load_all_data,              *)
(*   - the retry loop of fetch_hourly_weather_data (lines 30-41),          *)
(*   - the tab computations that read data_cache (lines 96-154),           *)
(*   - the pure data path: timestamp normalisation (line 37),              *)
(*     compute_cdd_hdd (lines 43-48) and the daily resamples.              *)
(***************************************************************************)
EXTENDS Integers, Sequences, FiniteSets, TLC

VARIABLES
    \* ---- session inputs (sidebar widgets, lines 55-61)
    selected_stations, parameters, start_date, end_date,
    \* ---- st.cache_data stores (lines 23, 64)
    fetchCache, loadCache,
    \* ---- the running script
    pc, i, j, results, station_results, data_cache, failedAt,
    \* ---- the running call of fetch_hourly_weather_data
    lastOutcome, lastCall,
    \* ---- environment: transport and user
    down, netCount, reruns,
    \* ---- the data path (one API response and what is derived from it)
    dpc, qstart, qend, raw, df, cddhdd, dailyMax, dailyMean

sessionVars == <<selected_stations, parameters, start_date, end_date,
                 fetchCache, loadCache, pc, i, j, results, station_results,
                 data_cache, failedAt, lastOutcome, lastCall,
                 down, netCount, reruns>>
dataVars == <<dpc, qstart, qend, raw, df, cddhdd, dailyMax, dailyMean>>
vars == <<sessionVars, dataVars>>

---------------------------------------------------------------------------
(* Bounds of the model *)

\* rows of stations.xlsx taken into account
NumStations == 2
\* leading entries of PARAMETERS taken into account
NumParams == 2
\* calendar days are 0..MaxDay
MaxDay == 1
\* widget changes (each one reruns the script) in one behaviour
MaxReruns == 1
\* the per-key request counters saturate here
CountCap == 2

---------------------------------------------------------------------------
(* Constants of the program *)

PARAMETERS == <<"T2M", "T2M_MAX", "T2M_MIN", "RH2M", "PRECTOTCORR", "WS10M">>

Params == {PARAMETERS[n] : n \in 1..NumParams}
Stations == 1..NumStations
Days == 0..MaxDay
DateRanges == {r \in Days \X Days : r[1] <= r[2]}

Min(a, b) == IF a <= b THEN a ELSE b
Max(a, b) == IF a >= b THEN a ELSE b
Bump(n) == Min(n + 1, CountCap)

Range(s) == {s[n] : n \in DOMAIN s}
EmptyMap == <<>>
\* no call of fetch_hourly_weather_data has been made in this script run
NoCall == [key |-> <<>>, hit |-> FALSE]

---------------------------------------------------------------------------
(* The remote API as seen by requests.get / raise_for_status / json()      *)

\* what one attempt of lines 32-37 can meet:
\*   "ok"      a parameter mapping with hourly values
\*   "empty"   a parameter mapping that is present and holds no hour
\*   "timeout" requests.get raises; "http429", "http404" raise_for_status raises
\*   "badjson" response.json() raises
\*   "noparam" the requested parameter is absent: line 35 raises KeyError
OkOutcomes == {"ok", "empty"}
FailOutcomes == {"timeout", "http429", "http404", "badjson", "noparam"}
Outcomes == OkOutcomes \cup FailOutcomes

\* the error classes of the taxonomy that are to be surfaced, not retried
NonRetryable == {"http404", "badjson"}

\* a station in `down` fails on every attempt, the others may do anything
TransportOutcomes(station, param) ==
    IF station \in down THEN FailOutcomes ELSE Outcomes

\* the arguments of fetch_hourly_weather_data, which are the memoisation key
FetchKey(station, param) == <<station, start_date, end_date, param>>

\* the DataFrame built from a response: identified by the request it answers
Series(key, outcome) ==
    [station |-> key[1], start |-> key[2], end |-> key[3], param |-> key[4],
     empty |-> (outcome = "empty")]

---------------------------------------------------------------------------
(* Session: initial state *)

\* defaults of the widgets (lines 57-61) and empty caches
SessionInit ==
    /\ selected_stations = <<1>>
    /\ parameters = <<"T2M">>
    /\ start_date = 0
    /\ end_date = MaxDay
    /\ fetchCache = EmptyMap
    /\ loadCache = <<>>
    /\ pc = "start"
    /\ i = 1
    /\ j = 1
    /\ results = EmptyMap
    /\ station_results = EmptyMap
    /\ data_cache = EmptyMap
    /\ failedAt = "none"
    /\ lastOutcome = "none"
    /\ lastCall = NoCall
    /\ down \in {d \in SUBSET Stations : Cardinality(d) <= 1}
    /\ netCount = EmptyMap
    /\ reruns = 0

\* the data path is not exercised by the session specification
DataIdle ==
    /\ dpc = "off"
    /\ qstart = 0
    /\ qend = 0
    /\ raw = EmptyMap
    /\ df = EmptyMap
    /\ cddhdd = EmptyMap
    /\ dailyMax = EmptyMap
    /\ dailyMean = EmptyMap

Init == SessionInit /\ DataIdle

---------------------------------------------------------------------------
(* st.cache_data *)

\* fetch_hourly_weather_data without its decorator: every call runs the body
FetchNeverCached(key) == FALSE

\* @st.cache_data on fetch_hourly_weather_data: keyed by the arguments
FetchCached(key) == key \in DOMAIN fetchCache

\* @st.cache_data on load_all_data: the function takes no argument, so the
\* store has a single entry, whatever the widgets hold
LoadCached == loadCache # <<>>

NetCountOf(key) == IF key \in DOMAIN netCount THEN netCount[key] ELSE 0

---------------------------------------------------------------------------
(* The script run *)

callVars == <<lastOutcome, lastCall>>
inputVars == <<selected_stations, parameters, start_date, end_date>>
loopVars == <<i, j, results, station_results>>

\* line 78, load_all_data() answered from the store
ScriptStartHit ==
    /\ pc = "start"
    /\ LoadCached
    /\ data_cache' = loadCache[1]
    /\ pc' = "tab2"
    /\ UNCHANGED <<inputVars, fetchCache, loadCache, loopVars, failedAt,
                   callVars, down, netCount, reruns, dataVars>>

\* line 78, load_all_data() executed: lines 66-68
ScriptStartMiss ==
    /\ pc = "start"
    /\ ~LoadCached
    /\ results' = EmptyMap
    /\ station_results' = EmptyMap
    /\ i' = 1
    /\ j' = 1
    /\ pc' = "load"
    /\ UNCHANGED <<inputVars, fetchCache, loadCache, data_cache, failedAt,
                   callVars, down, netCount, reruns, dataVars>>

\* line 73, fetch_hourly_weather_data(...) answered from the store; line 74
LoadFetchHit ==
    /\ pc = "load"
    /\ i <= Len(selected_stations)
    /\ j <= Len(parameters)
    /\ LET key == FetchKey(selected_stations[i], parameters[j])
       IN /\ FetchCached(key)
          /\ station_results' = (parameters[j] :> fetchCache[key]) @@ station_results
          /\ lastCall' = [key |-> key, hit |-> TRUE]
    /\ j' = j + 1
    /\ UNCHANGED <<inputVars, fetchCache, loadCache, pc, i, results, data_cache,
                   failedAt, lastOutcome, down, netCount, reruns, dataVars>>

\* line 73, fetch_hourly_weather_data(...) executed: lines 25-30
LoadFetchMiss ==
    /\ pc = "load"
    /\ i <= Len(selected_stations)
    /\ j <= Len(parameters)
    /\ LET key == FetchKey(selected_stations[i], parameters[j])
       IN /\ ~FetchCached(key)
          /\ lastCall' = [key |-> key, hit |-> FALSE]
    /\ lastOutcome' = "none"
    /\ pc' = "request"
    /\ UNCHANGED <<inputVars, fetchCache, loadCache, loopVars, data_cache,
                   failedAt, down, netCount, reruns, dataVars>>

\* lines 32-38 without an exception: the DataFrame is returned, stored by
\* st.cache_data, and assigned at line 74
RequestOk ==
    /\ pc = "request"
    /\ LET key == lastCall.key
       IN \E outcome \in TransportOutcomes(key[1], key[4]) \cap OkOutcomes :
            /\ netCount' = (key :> Bump(NetCountOf(key))) @@ netCount
            /\ fetchCache' = (key :> Series(key, outcome)) @@ fetchCache
            /\ station_results' = (key[4] :> Series(key, outcome)) @@ station_results
    /\ j' = j + 1
    /\ pc' = "load"
    /\ UNCHANGED <<inputVars, loadCache, i, results, data_cache, failedAt,
                   lastOutcome, lastCall, down, reruns, dataVars>>

\* lines 32-35 raising: requests.get, raise_for_status, json() or the
\* subscript raw["properties"]["parameter"][parameter]; caught at line 39
RequestFail ==
    /\ pc = "request"
    /\ LET key == lastCall.key
       IN \E outcome \in TransportOutcomes(key[1], key[4]) \cap FailOutcomes :
            /\ netCount' = (key :> Bump(NetCountOf(key))) @@ netCount
            /\ lastOutcome' = outcome
    /\ pc' = "except"
    /\ UNCHANGED <<inputVars, fetchCache, loadCache, loopVars, data_cache,
                   failedAt, lastCall, down, reruns, dataVars>>

\* lines 40-41: the warning, then continue
Retry ==
    /\ pc = "except"
    /\ pc' = "request"
    /\ UNCHANGED <<inputVars, fetchCache, loadCache, loopVars, data_cache,
                   failedAt, callVars, down, netCount, reruns, dataVars>>

\* line 75, then the next station of line 69 (lines 70-71)
LoadNextStation ==
    /\ pc = "load"
    /\ i <= Len(selected_stations)
    /\ j > Len(parameters)
    /\ results' = (selected_stations[i] :> station_results) @@ results
    /\ station_results' = EmptyMap
    /\ i' = i + 1
    /\ j' = 1
    /\ UNCHANGED <<inputVars, fetchCache, loadCache, pc, data_cache, failedAt,
                   callVars, down, netCount, reruns, dataVars>>

\* line 76: the result is returned, stored by st.cache_data, and bound to
\* data_cache at line 78
LoadReturn ==
    /\ pc = "load"
    /\ i > Len(selected_stations)
    /\ loadCache' = <<results>>
    /\ data_cache' = results
    /\ pc' = "tab2"
    /\ i' = 1
    /\ j' = 1
    /\ results' = EmptyMap
    /\ station_results' = EmptyMap
    /\ UNCHANGED <<inputVars, fetchCache, failedAt, callVars, down, netCount,
                   reruns, dataVars>>

---------------------------------------------------------------------------
(* The tabs *)

\* data_cache[station][param] finds an entry
HasEntry(station, param) ==
    /\ station \in DOMAIN data_cache
    /\ param \in DOMAIN data_cache[station]

\* the subscripts of lines 101 and 149
SelectionReads ==
    {<<selected_stations[a], parameters[b]>> :
        a \in DOMAIN selected_stations, b \in DOMAIN parameters}

\* the subscripts of lines 118 and 129
T2MReads == {<<selected_stations[a], "T2M">> : a \in DOMAIN selected_stations}

TabReads(tab) == IF tab \in {"tab3", "tab4"} THEN T2MReads ELSE SelectionReads

NextTab(tab) ==
    CASE tab = "tab2" -> "tab3"
      [] tab = "tab3" -> "tab4"
      [] tab = "tab4" -> "tab5"
      [] tab = "tab5" -> "done"

\* one tab block runs to its end, or stops the script run on a KeyError
TabRun(tab) ==
    /\ pc = tab
    /\ IF \A r \in TabReads(tab) : HasEntry(r[1], r[2])
       THEN pc' = NextTab(tab) /\ UNCHANGED failedAt
       ELSE pc' = "failed" /\ failedAt' = tab
    /\ UNCHANGED <<inputVars, fetchCache, loadCache, loopVars, data_cache,
                   callVars, down, netCount, reruns, dataVars>>

Tab2 == TabRun("tab2")
Tab3 == TabRun("tab3")
Tab4 == TabRun("tab4")
Tab5 == TabRun("tab5")

---------------------------------------------------------------------------
(* The user: a widget change stops the running script and reruns it *)

Remove(s, x) == SelectSeq(s, LAMBDA y : y # x)
Toggle(s, x) == IF x \in Range(s) THEN Remove(s, x) ELSE Append(s, x)

\* the rerun starts the script from line 1 with a fresh namespace; only the
\* st.cache_data stores survive
RerunWith(stations, params, start, end) ==
    /\ reruns < MaxReruns
    /\ reruns' = reruns + 1
    /\ selected_stations' = stations
    /\ parameters' = params
    /\ start_date' = start
    /\ end_date' = end
    /\ pc' = "start"
    /\ failedAt' = "none"
    /\ i' = 1
    /\ j' = 1
    /\ results' = EmptyMap
    /\ station_results' = EmptyMap
    /\ data_cache' = EmptyMap
    /\ lastOutcome' = "none"
    /\ lastCall' = NoCall
    /\ UNCHANGED <<fetchCache, loadCache, down, netCount, dataVars>>

\* line 57
ChangeStations ==
    \E s \in Stations :
        RerunWith(Toggle(selected_stations, s), parameters, start_date, end_date)

\* line 58
ChangeParameters ==
    \E p \in Params :
        RerunWith(selected_stations, Toggle(parameters, p), start_date, end_date)

\* lines 60-61
ChangeDates ==
    \E r \in DateRanges :
        /\ (r[1] = start_date) # (r[2] = end_date)
        /\ RerunWith(selected_stations, parameters, r[1], r[2])

---------------------------------------------------------------------------
(* Session specification *)

ScriptStep ==
    \/ ScriptStartHit
    \/ ScriptStartMiss
    \/ LoadFetchHit
    \/ LoadFetchMiss
    \/ RequestOk
    \/ RequestFail
    \/ Retry
    \/ LoadNextStation
    \/ LoadReturn
    \/ Tab2
    \/ Tab3
    \/ Tab4
    \/ Tab5

UserStep ==
    \/ ChangeStations
    \/ ChangeParameters
    \/ ChangeDates

Next == ScriptStep \/ UserStep

Spec == Init /\ [][Next]_vars

\* the script runs on its own: a step it can take is eventually taken
FairSpec == Spec /\ WF_vars(ScriptStep)

---------------------------------------------------------------------------
(* The data path: one response of the API and what the script derives      *)

\* hours of a day in the stamps "%Y%m%d%H" of line 37
HoursPerDay == 24
\* Asia/Riyadh (line 11) is UTC+3 all year
UtcOffset == 3
\* base_temp of compute_cdd_hdd (line 43), in whole degrees
BaseTemp == 18
\* the fill value the API puts where an hour has no observation
Sentinel == -999

\* hourly values a response may carry
Readings == {Sentinel, 10, 19, 30}

\* the hour stamps of a response for start..end: with time-standard=UTC
\* (line 28) they are the hours 00..23 UTC of every requested day
ApiStamps(start, end) == (start..end) \X (0..(HoursPerDay - 1))

\* responses: every hour reads `usual` but one, which reads `other`
Responses(start, end) ==
    {[s \in ApiStamps(start, end) |-> IF s = odd THEN other ELSE usual] :
        odd \in ApiStamps(start, end), usual \in Readings, other \in Readings}

\* pd.to_datetime(..., format="%Y%m%d%H"): the hour count of a stamp
ToDatetime(stamp) == stamp[1] * HoursPerDay + stamp[2]

\* .tz_localize("UTC").tz_convert(KSA_TZ): the same instant, read on the
\* wall clock of Asia/Riyadh
TzConvert(utcHour) == utcHour + UtcOffset

\* index.date of a converted timestamp (line 47, and the bins of resample("D"))
DateOf(t) == t \div HoursPerDay

\* lines 36-37: the frame indexed by converted timestamps
Normalize(response) ==
    LET stampAt(t) == CHOOSE s \in DOMAIN response : TzConvert(ToDatetime(s)) = t
    IN [t \in {TzConvert(ToDatetime(s)) : s \in DOMAIN response} |->
            response[stampAt(t)]]

RECURSIVE SumOver(_, _)
SumOver(S, f) ==
    IF S = {} THEN 0
    ELSE LET x == CHOOSE y \in S : TRUE IN f[x] + SumOver(S \ {x}, f)

MaxOver(S, f) == CHOOSE m \in {f[x] : x \in S} : \A x \in S : f[x] <= m

DatesOf(frame) == {DateOf(t) : t \in DOMAIN frame}
HoursOn(frame, d) == {t \in DOMAIN frame : DateOf(t) = d}

\* lines 44-48: hourly excess over and under base_temp, summed per date
ComputeCddHdd(frame) ==
    LET cdd == [t \in DOMAIN frame |-> Max(0, frame[t] - BaseTemp)]
        hdd == [t \in DOMAIN frame |-> Max(0, BaseTemp - frame[t])]
    IN [d \in DatesOf(frame) |->
            [CDD |-> SumOver(HoursOn(frame, d), cdd),
             HDD |-> SumOver(HoursOn(frame, d), hdd)]]

\* line 119: resample("D").max()
ResampleMax(frame) ==
    [d \in DatesOf(frame) |-> MaxOver(HoursOn(frame, d), frame)]

\* line 150: resample("D").mean(), kept as the sum and the number of samples
ResampleMean(frame) ==
    [d \in DatesOf(frame) |->
        [sum |-> SumOver(HoursOn(frame, d), frame),
         n |-> Cardinality(HoursOn(frame, d))]]

\* the session is not exercised by the data specification
SessionIdle ==
    /\ selected_stations = <<1>>
    /\ parameters = <<"T2M">>
    /\ start_date = 0
    /\ end_date = MaxDay
    /\ fetchCache = EmptyMap
    /\ loadCache = <<>>
    /\ pc = "off"
    /\ i = 1
    /\ j = 1
    /\ results = EmptyMap
    /\ station_results = EmptyMap
    /\ data_cache = EmptyMap
    /\ failedAt = "none"
    /\ lastOutcome = "none"
    /\ lastCall = NoCall
    /\ down = {}
    /\ netCount = EmptyMap
    /\ reruns = 0

\* a response for a requested range has arrived (line 35)
DataInit ==
    /\ SessionIdle
    /\ dpc = "fetched"
    /\ \E r \in DateRanges :
        /\ qstart = r[1]
        /\ qend = r[2]
        /\ raw \in Responses(r[1], r[2])
    /\ df = EmptyMap
    /\ cddhdd = EmptyMap
    /\ dailyMax = EmptyMap
    /\ dailyMean = EmptyMap

\* lines 36-38
DoNormalize ==
    /\ dpc = "fetched"
    /\ df' = Normalize(raw)
    /\ dpc' = "frame"
    /\ UNCHANGED <<sessionVars, qstart, qend, raw, cddhdd, dailyMax, dailyMean>>

\* line 119
DoResampleMax ==
    /\ dpc = "frame"
    /\ dailyMax' = ResampleMax(df)
    /\ dpc' = "max"
    /\ UNCHANGED <<sessionVars, qstart, qend, raw, df, cddhdd, dailyMean>>

\* line 130
DoComputeCddHdd ==
    /\ dpc = "max"
    /\ cddhdd' = ComputeCddHdd(df)
    /\ dpc' = "cdd"
    /\ UNCHANGED <<sessionVars, qstart, qend, raw, df, dailyMax, dailyMean>>

\* line 150
DoResampleMean ==
    /\ dpc = "cdd"
    /\ dailyMean' = ResampleMean(df)
    /\ dpc' = "derived"
    /\ UNCHANGED <<sessionVars, qstart, qend, raw, df, cddhdd, dailyMax>>

DataNext ==
    \/ DoNormalize
    \/ DoResampleMax
    \/ DoComputeCddHdd
    \/ DoResampleMean

DataSpec == DataInit /\ [][DataNext]_vars

---------------------------------------------------------------------------
(* Properties of the session *)

InFetch == pc \in {"request", "except"}
Loading == pc \in {"load", "request", "except"}
Loaded == pc \in {"tab2", "tab3", "tab4", "tab5", "done", "failed"}

\* C1: every call of fetch_hourly_weather_data ends: a call that has entered
\* its request loop leaves it again, whatever the transport answers.
C1_FetchTerminates == InFetch ~> ~InFetch

\* C2: after an attempt has failed with a non-retryable class (NotFound,
\* ParseFailure) the call is never again about to issue a request.
C2_NonRetryableSurfaced == (pc = "request") => (lastOutcome \notin NonRetryable)

\* C3: a response whose payload lacks the requested parameter is not
\* handled as a failure: the call is never in its exception handler for it.
C3_InvalidPayloadIsEmptySeries == ~(pc = "except" /\ lastOutcome = "noparam")

\* exactly one of several selected keys is permanently failing
OneBadKey ==
    /\ Cardinality(SelectionReads) > 1
    /\ Cardinality({r \in SelectionReads : r[1] \in down}) = 1

\* C4: a load over several keys of which exactly one fails permanently
\* eventually leaves load_all_data.
C4_BadKeyDoesNotBlock == (pc = "load" /\ OneBadKey) ~> ~Loading

\* C5 as stated: when a key is requested again and served from the store,
\* exactly one network request has been issued for it in total.
C5_ExactlyOneNetworkCall == lastCall.hit => (NetCountOf(lastCall.key) = 1)

\* C5 as amended: once a key's series is in the store, every later request
\* for the key leaves the stored series and the number of network requests
\* issued for the key unchanged.
C5_CachedKeyNeverRefetched ==
    [][\A k \in DOMAIN fetchCache :
          /\ k \in DOMAIN fetchCache'
          /\ fetchCache'[k] = fetchCache[k]
          /\ k \in DOMAIN netCount'
          /\ netCount'[k] = netCount[k]]_vars

\* a key was requested a second time and answered from the store
C5_Witness ==
    /\ lastCall.hit
    /\ NetCountOf(lastCall.key) >= 1
    /\ lastCall.key[4] \in DOMAIN station_results
    /\ station_results[lastCall.key[4]] = fetchCache[lastCall.key]

\* data_cache is the table of the current selection and date range
DataCacheCurrent ==
    /\ DOMAIN data_cache = Range(selected_stations)
    /\ \A s \in DOMAIN data_cache :
        /\ DOMAIN data_cache[s] = Range(parameters)
        /\ \A p \in DOMAIN data_cache[s] :
            /\ data_cache[s][p].station = s
            /\ data_cache[s][p].param = p
            /\ data_cache[s][p].start = start_date
            /\ data_cache[s][p].end = end_date

\* C6: whenever load_all_data has returned, data_cache holds exactly the
\* series of the current stations, parameters and date range.
C6_DataCacheIsCurrent == Loaded => DataCacheCurrent

\* C10: whenever a tab is about to run on the freshly loaded table of the
\* current selection, every subscript it evaluates finds an entry.
C10_TabReadsFindEntries ==
    (pc \in {"tab2", "tab3", "tab4", "tab5"} /\ DataCacheCurrent)
        => \A r \in TabReads(pc) : HasEntry(r[1], r[2])

---------------------------------------------------------------------------
(* Properties of the data path *)

\* C7: every timestamp of the frame, read in Asia/Riyadh, lies within
\* [start 00:00, end 23:00], and the frame groups into the requested days
\* with 24 samples each.
C7_TimestampsWithinRequestedDays ==
    /\ (dpc # "fetched") =>
          \A t \in DOMAIN df :
              /\ qstart * HoursPerDay <= t
              /\ t <= qend * HoursPerDay + (HoursPerDay - 1)
    /\ (dpc = "derived") =>
          /\ DOMAIN dailyMean = qstart..qend
          /\ \A d \in DOMAIN dailyMean : dailyMean[d].n = HoursPerDay

\* the hours of a date whose raw value is an observation
Observed(d) == {t \in HoursOn(df, d) : df[t] # Sentinel}

\* C8: no hour of the frame still carries the sentinel, and every daily
\* value is computed from the observed hours only.
C8_SentinelExcluded ==
    (dpc = "derived") =>
        /\ \A t \in DOMAIN df : df[t] # Sentinel
        /\ \A d \in DatesOf(df) :
            /\ cddhdd[d].CDD =
                  SumOver(Observed(d), [t \in Observed(d) |-> Max(0, df[t] - BaseTemp)])
            /\ cddhdd[d].HDD =
                  SumOver(Observed(d), [t \in Observed(d) |-> Max(0, BaseTemp - df[t])])
            /\ (Observed(d) # {}) =>
                  /\ dailyMax[d] = MaxOver(Observed(d), df)
                  /\ dailyMean[d].sum = SumOver(Observed(d), df)
                  /\ dailyMean[d].n = Cardinality(Observed(d))

\* policy (a): the hourly excess summed over the day and divided by 24
PolicyHourly(d) ==
    LET H == HoursOn(df, d)
    IN /\ HoursPerDay * cddhdd[d].CDD =
              SumOver(H, [t \in H |-> Max(0, df[t] - BaseTemp)])
       /\ HoursPerDay * cddhdd[d].HDD =
              SumOver(H, [t \in H |-> Max(0, BaseTemp - df[t])])

\* policy (b): the excess of the daily mean, taken once per day
PolicyDailyMean(d) ==
    LET H == HoursOn(df, d)
        n == Cardinality(H)
        total == SumOver(H, df)
    IN /\ n * cddhdd[d].CDD = Max(0, total - n * BaseTemp)
       /\ n * cddhdd[d].HDD = Max(0, n * BaseTemp - total)

\* C9: for a frame of observations (no hour carries the sentinel), the CDD
\* and HDD of every day follow policy (a), or those of every day follow
\* policy (b).
C9_OneDegreeDayPolicy ==
    (dpc = "derived" /\ \A t \in DOMAIN df : df[t] # Sentinel) =>
        \/ \A d \in DatesOf(df) : PolicyHourly(d)
        \/ \A d \in DatesOf(df) : PolicyDailyMean(d)

=============================================================================
